---- MODULE Spec2Model ----
(***************************************************************************)
(* azsh: an interactive Azure shell on top of an agent runtime.            *)
(*                                                                         *)
(* The module models four components of src/src/azsh:                      *)
(*   - agent.py           the tool-safety gate (on_pre_tool_use)           *)
(*   - mentions.py        resolve_mentions and its resolvers               *)
(*   - resource_cache.py  the active resource group and its refresh task   *)
(*   - repl.py/commands.py  the REPL loop and the slash-command dispatch   *)
(* Text is modelled by TLA+ strings; Len, SubSeq, Head, Tail and \o are    *)
(* applied to them character by character, as the Python code does.        *)
(***************************************************************************)
EXTENDS Integers, Sequences, FiniteSets, TLC

VARIABLES
    \* agent.py: the tool event, the pre-hook's decision, the post-hook's result
    tool_event, permission, post_result,
    \* mentions.py: one call of resolve_mentions
    m_pc, m_input, m_matches, m_pat, cleaned, contexts, m_log, m_result, az_calls,
    \* resource_cache.py: module globals and the tasks of the event loop
    _active_rg, _cached_resources, _fetch_task, tasks,
    \* repl.py: position and locals of run_repl
    pc, user_input, result, resolved_text, response_buffer, cleanup_runs,
    \* repl.py: what run_repl printed last; agent.py: the client and the session
    console, client, session,
    \* the agent runtime: the prompt each buffered delta answers, and whether
    \* the agent still answers a prompt whose turn timed out
    delta_turns, late_work

gate_vars == <<tool_event, permission, post_result>>
mention_vars == <<m_pc, m_input, m_matches, m_pat, cleaned, contexts, m_log, m_result, az_calls>>
cache_vars == <<_active_rg, _cached_resources, _fetch_task, tasks>>
repl_vars == <<pc, user_input, result, resolved_text, response_buffer, cleanup_runs,
               console, client, session, delta_turns, late_work>>
vars == <<gate_vars, mention_vars, cache_vars, repl_vars>>

\* Python's None
None == "<None>"
\* _fetch_task is None: no task has been created
NoTask == 0

(***************************************************************************)
(* Bounds of the model                                                     *)
(***************************************************************************)
\* a command text is a concatenation of at most MaxCmdFrags fragments
MaxCmdFrags == 2
\* a generated user input is a concatenation of at most MaxFrags fragments
MaxFrags == 2
\* number of set_active_rg calls in one run of the cache
MaxSets == 2

(***************************************************************************)
(* Text helpers (Python str operations)                                    *)
(***************************************************************************)
Ch(s, i) == SubSeq(s, i, i)

UpperAlpha == "ABCDEFGHIJKLMNOPQRSTUVWXYZ"
LowerAlpha == "abcdefghijklmnopqrstuvwxyz"
Digits == "0123456789"

InStr(c, alphabet) == \E i \in 1..Len(alphabet) : Ch(alphabet, i) = c

\* str.lower() of one character
LowerCh(c) ==
    IF InStr(c, UpperAlpha)
    THEN Ch(LowerAlpha, CHOOSE i \in 1..Len(UpperAlpha) : Ch(UpperAlpha, i) = c)
    ELSE c

RECURSIVE StrLower(_)
\* str.lower()
StrLower(s) == IF s = "" THEN "" ELSE LowerCh(Head(s)) \o StrLower(Tail(s))

\* s[i:].startswith(lit), i counted from 1
StartsAt(s, i, lit) ==
    /\ i >= 1
    /\ i + Len(lit) - 1 <= Len(s)
    /\ SubSeq(s, i, i + Len(lit) - 1) = lit

\* s.find(sub, i-1) + 1: the first index >= i where sub occurs, 0 when none
FindFrom(s, sub, i) ==
    LET hits == {k \in i..(Len(s) - Len(sub) + 1) : StartsAt(s, k, sub)}
    IN  IF hits = {} THEN 0 ELSE CHOOSE k \in hits : \A j \in hits : k <= j

\* `sub in s`
StrIn(sub, s) == FindFrom(s, sub, 1) # 0

\* dict.get(key, default) on a record whose fields are the keys present
Get(d, key, default) == IF key \in DOMAIN d THEN d[key] ELSE default

RECURSIVE Concats(_, _)
\* the concatenations of at most n fragments
Concats(frags, n) ==
    IF n = 0 THEN {""}
    ELSE LET prev == Concats(frags, n - 1)
         IN  prev \cup {p \o f : p \in prev, f \in frags}

(***************************************************************************)
(* agent.py: the tool-safety gate                                          *)
(***************************************************************************)
DESTRUCTIVE_KEYWORDS ==
    << "delete", "destroy", "remove", "drop", "purge",
       "az group delete", "terraform destroy", "kubectl delete", "rm -rf" >>

OUR_TOOLS == {"run_command", "get_azure_context"}

\* the command text read from the event: toolArgs.command, else input.command, else ""
EventCommand(input) ==
    Get(Get(input, "toolArgs", [x \in {} |-> ""]), "command",
        Get(Get(input, "input", [x \in {} |-> ""]), "command", ""))

\* mutant: the keyword test without lower-casing the command
on_pre_tool_use_NoLower(input) ==
    LET tool_name == Get(input, "toolName", "unknown")
        command == EventCommand(input)
    IN  IF tool_name \notin OUR_TOOLS THEN [permissionDecision |-> "allow"]
        ELSE IF tool_name = "run_command"
                /\ \E k \in 1..Len(DESTRUCTIVE_KEYWORDS) :
                       StrIn(DESTRUCTIVE_KEYWORDS[k], command)
        THEN [permissionDecision |-> "ask"]
        ELSE [permissionDecision |-> "allow"]

\* mutant: the keyword test applied to every tool of OUR_TOOLS
on_pre_tool_use_AnyOurTool(input) ==
    LET tool_name == Get(input, "toolName", "unknown")
        command == EventCommand(input)
    IN  IF tool_name \notin OUR_TOOLS THEN [permissionDecision |-> "allow"]
        ELSE IF \E k \in 1..Len(DESTRUCTIVE_KEYWORDS) :
                       StrIn(DESTRUCTIVE_KEYWORDS[k], StrLower(command))
        THEN [permissionDecision |-> "ask"]
        ELSE [permissionDecision |-> "allow"]

on_pre_tool_use(input) ==
    LET tool_name == Get(input, "toolName", "unknown")
        command == EventCommand(input)
    IN  IF tool_name \notin OUR_TOOLS THEN [permissionDecision |-> "allow"]
        ELSE IF tool_name = "run_command"
                /\ \E k \in 1..Len(DESTRUCTIVE_KEYWORDS) :
                       StrIn(DESTRUCTIVE_KEYWORDS[k], StrLower(command))
        THEN [permissionDecision |-> "ask"]
        ELSE [permissionDecision |-> "allow"]

\* the fragments command texts are built from
CmdFrags ==
    { "az group list", "rm -rf", "rm -", "rf /tmp", " ", "DELETE", "Drop",
      "de", "lete", "kubectl get pods", "x" }

GateCommands == Concats(CmdFrags, MaxCmdFrags)

GateTools == {"run_command", "get_azure_context", "read_file"}

\* the shapes of the hook's input: the command under toolArgs, under input,
\* under both, or absent; the tool name present or absent
GateEvents ==
    {[toolName |-> t, toolArgs |-> [command |-> c]] : t \in GateTools, c \in GateCommands}
    \cup {[toolName |-> t, input |-> [command |-> c]] : t \in GateTools, c \in GateCommands}
    \cup {[toolName |-> t, toolArgs |-> [working_directory |-> "/tmp"],
           input |-> [command |-> c]] : t \in GateTools, c \in GateCommands}
    \cup {[toolName |-> t] : t \in GateTools}
    \cup {[toolArgs |-> [command |-> c]] : c \in GateCommands}

\* Show when a tool call completes: the hook returns the empty dict
on_post_tool_use(input) == [k \in {} |-> None]

\* The hooks keep no state between tool calls, so one behaviour follows one
\* tool call: the runtime invokes the pre-tool-use hook with an event
PreToolUse ==
    /\ permission = None
    /\ \E ev \in GateEvents :
          /\ tool_event' = ev
          /\ permission' = on_pre_tool_use(ev).permissionDecision
    /\ UNCHANGED post_result
    /\ UNCHANGED <<mention_vars, cache_vars, repl_vars>>

\* the tool has run: the runtime invokes the post-tool-use hook
PostToolUse ==
    /\ permission # None
    /\ post_result = << >>
    /\ post_result' = << on_post_tool_use(tool_event) >>
    /\ UNCHANGED <<tool_event, permission>>
    /\ UNCHANGED <<mention_vars, cache_vars, repl_vars>>

(***************************************************************************)
(* mentions.py: regular expressions                                        *)
(***************************************************************************)
AZ_TIMEOUT == 10

\* \s of Python's re on the characters the inputs use
IsSpaceCh(c) == c \in {" ", "\t", "\n", "\r"}

\* \w of Python's re: letters, digits and the underscore
IsWordCh(c) == InStr(c, UpperAlpha) \/ InStr(c, LowerAlpha) \/ InStr(c, Digits) \/ c = "_"

RECURSIVE NonSpaceEnd(_, _)
\* the last index of the run of non-space characters that starts at i (greedy \S+)
NonSpaceEnd(s, i) ==
    IF i + 1 <= Len(s) /\ ~IsSpaceCh(Ch(s, i + 1)) THEN NonSpaceEnd(s, i + 1) ELSE i

\* Ordered list of (pattern, resolver): @sub\b, @rg:(\S+), @vm:(\S+), @aks:(\S+), @file:(\S+)
MENTION_PATTERNS ==
    << [kind |-> "sub",  prefix |-> "@sub"],
       [kind |-> "rg",   prefix |-> "@rg:"],
       [kind |-> "vm",   prefix |-> "@vm:"],
       [kind |-> "aks",  prefix |-> "@aks:"],
       [kind |-> "file", prefix |-> "@file:"] >>

NoMorePatterns == Len(MENTION_PATTERNS) + 1

\* the end index of a match of pattern p that starts exactly at i, 0 when none
MatchEnd(p, s, i) ==
    LET pre == MENTION_PATTERNS[p].prefix
        j == i + Len(pre)
    IN  IF ~StartsAt(s, i, pre) THEN 0
        ELSE IF MENTION_PATTERNS[p].kind = "sub"
        THEN (IF j > Len(s) \/ ~IsWordCh(Ch(s, j)) THEN j - 1 ELSE 0)
        ELSE (IF j <= Len(s) /\ ~IsSpaceCh(Ch(s, j)) THEN NonSpaceEnd(s, j) ELSE 0)

RECURSIVE FindIterFrom(_, _, _)
\* re.finditer(pattern, s): the non-overlapping matches from index i on, left to right
FindIterFrom(p, s, i) ==
    IF i > Len(s) THEN << >>
    ELSE LET e == MatchEnd(p, s, i)
         IN  IF e = 0 THEN FindIterFrom(p, s, i + 1)
             ELSE << [start |-> i, end |-> e,
                      group0 |-> SubSeq(s, i, e),
                      group1 |-> SubSeq(s, i + Len(MENTION_PATTERNS[p].prefix), e)] >>
                  \o FindIterFrom(p, s, e + 1)

\* mutant: the matches of a pattern are visited right to left
FindIter_Reversed(p, s) ==
    LET found == FindIterFrom(p, s, 1)
    IN  [k \in 1..Len(found) |-> found[Len(found) + 1 - k]]

FindIter(p, s) == FindIterFrom(p, s, 1)

\* mutant: the result of str.replace is dropped, the text stays as it was
ReplaceFirst_Discard(s, old, new) == s

\* str.replace(old, new, 1): the first occurrence only
ReplaceFirst(s, old, new) ==
    LET i == FindFrom(s, old, 1)
    IN  IF i = 0 THEN s
        ELSE SubSeq(s, 1, i - 1) \o new \o SubSeq(s, i + Len(old), Len(s))

RECURSIVE SkipSpaces(_)
SkipSpaces(s) == IF s # "" /\ Head(s) = " " THEN SkipSpaces(Tail(s)) ELSE s

RECURSIVE CollapseSpaces(_)
\* re.sub(r"  +", " ", s)
CollapseSpaces(s) ==
    IF s = "" THEN ""
    ELSE IF StartsAt(s, 1, "  ") THEN " " \o CollapseSpaces(SkipSpaces(s))
    ELSE Head(s) \o CollapseSpaces(Tail(s))

RECURSIVE LStrip(_)
LStrip(s) == IF s # "" /\ IsSpaceCh(Head(s)) THEN LStrip(Tail(s)) ELSE s

RECURSIVE RStrip(_)
RStrip(s) ==
    IF s # "" /\ IsSpaceCh(Ch(s, Len(s))) THEN RStrip(SubSeq(s, 1, Len(s) - 1)) ELSE s

\* str.strip()
Strip(s) == RStrip(LStrip(s))

RECURSIVE Join(_, _)
\* sep.join(parts)
Join(parts, sep) ==
    IF parts = << >> THEN ""
    ELSE IF Len(parts) = 1 THEN parts[1]
    ELSE parts[1] \o sep \o Join(Tail(parts), sep)

(***************************************************************************)
(* mentions.py: the backend adapter and the resolvers                      *)
(*                                                                         *)
(* The outcome of a lookup is an input of the model:                       *)
(*   "ok"        exit code 0 and well-formed JSON (the entity exists)      *)
(*   "notfound"  exit code 0 and an empty JSON list                        *)
(*   "nonzero"   non-zero exit code                                        *)
(*   "timeout"   subprocess.run exceeds AZ_TIMEOUT                         *)
(*   "badjson"   exit code 0 and output that json.loads rejects            *)
(*   "env"       @sub only: ACC_USER_SUBSCRIPTION is set, no az call       *)
(*   "oserror"   @file only: open() raises another OSError                 *)
(* A resolver returns [exc, context, replacement]; exc names the exception *)
(* that leaves the resolver, "none" when it returns normally.              *)
(***************************************************************************)
\* _run_az: the parsed JSON, or the exception raised
_run_az(outcome) ==
    CASE outcome = "nonzero" -> [exc |-> "RuntimeError", msg |-> "ERROR: az failed"]
      [] outcome = "timeout" ->
            [exc |-> "TimeoutExpired",
             msg |-> "Command 'az' timed out after " \o ToString(AZ_TIMEOUT) \o " seconds"]
      [] outcome = "badjson" ->
            [exc |-> "JSONDecodeError", msg |-> "Expecting value: line 1 column 1 (char 0)"]
      [] OTHER -> [exc |-> "none", msg |-> ""]

Returned(context, replacement) ==
    [exc |-> "none", context |-> context, replacement |-> replacement]

Raised(exc) == [exc |-> exc, context |-> "", replacement |-> ""]

_resolve_sub(match, outcome) ==
    IF outcome = "env"
    THEN Returned("[Azure Context: Current Subscription]\n"
                  \o "Subscription ID: sub-0001, Tenant: unknown, "
                  \o "Region: unknown, User: unknown, Session: unknown",
                  "the current subscription")
    ELSE LET info == _run_az(outcome)
         IN  IF info.exc # "none"
             THEN Returned("[Could not resolve @sub: " \o info.msg \o "]", "@sub")
             ELSE Returned("[Azure Context: Subscription 'Pay-As-You-Go']\n"
                           \o "ID: sub-0001, Tenant: tenant-01, User: dev, State: Enabled",
                           "the current subscription")

\* mutant: the resolver without its `except Exception` handler
_resolve_rg_NoExcept(match, outcome) ==
    LET name == match.group1
        group == _run_az(outcome)
    IN  IF group.exc # "none"
        THEN Raised(group.exc)
        ELSE Returned("[Azure Context: Resource Group '" \o name \o "']\n"
                      \o "Location: eastus, Tags: none, Provisioning: Succeeded\n"
                      \o "Resources:\n  (none)",
                      "resource group '" \o name \o "'")

_resolve_rg(match, outcome) ==
    LET name == match.group1
        group == _run_az(outcome)
    IN  IF group.exc # "none"
        THEN Returned("[Could not resolve @rg:" \o name \o ": " \o group.msg \o "]",
                      "@rg:" \o name)
        ELSE Returned("[Azure Context: Resource Group '" \o name \o "']\n"
                      \o "Location: eastus, Tags: none, Provisioning: Succeeded\n"
                      \o "Resources:\n  (none)",
                      "resource group '" \o name \o "'")

\* mutant: the resolver returns the VM label also when the lookup failed
_resolve_vm_LabelOnFailure(match, outcome) ==
    LET name == match.group1
        vms == _run_az(outcome)
    IN  IF vms.exc # "none"
        THEN Returned("[Could not resolve @vm:" \o name \o ": " \o vms.msg \o "]",
                      "VM '" \o name \o "'")
        ELSE IF outcome = "notfound"
        THEN Returned("[Could not resolve @vm:" \o name \o ": VM not found]",
                      "VM '" \o name \o "'")
        ELSE Returned("[Azure Context: VM '" \o name \o "']\n"
                      \o "Resource Group: rg1, Location: eastus\n"
                      \o "Size: Standard_B2s, OS: Linux, Power State: VM running\n"
                      \o "Public IP: none, Private IP: 10.0.0.4",
                      "VM '" \o name \o "'")

_resolve_vm(match, outcome) ==
    LET name == match.group1
        vms == _run_az(outcome)
    IN  IF vms.exc # "none"
        THEN Returned("[Could not resolve @vm:" \o name \o ": " \o vms.msg \o "]",
                      "@vm:" \o name)
        ELSE IF outcome = "notfound"
        THEN Returned("[Could not resolve @vm:" \o name \o ": VM not found]", "@vm:" \o name)
        ELSE Returned("[Azure Context: VM '" \o name \o "']\n"
                      \o "Resource Group: rg1, Location: eastus\n"
                      \o "Size: Standard_B2s, OS: Linux, Power State: VM running\n"
                      \o "Public IP: none, Private IP: 10.0.0.4",
                      "VM '" \o name \o "'")

_resolve_aks(match, outcome) ==
    LET name == match.group1
        clusters == _run_az(outcome)
    IN  IF clusters.exc # "none"
        THEN Returned("[Could not resolve @aks:" \o name \o ": " \o clusters.msg \o "]",
                      "@aks:" \o name)
        ELSE IF outcome = "notfound"
        THEN Returned("[Could not resolve @aks:" \o name \o ": cluster not found]",
                      "@aks:" \o name)
        ELSE Returned("[Azure Context: AKS Cluster '" \o name \o "']\n"
                      \o "Version: 1.29, FQDN: unknown, Provisioning: Succeeded\n"
                      \o "Node Pools:\n  - pool1: 3 nodes (Standard_D2s_v3)",
                      "AKS cluster '" \o name \o "'")

_resolve_file(match, outcome) ==
    LET path == match.group1
    IN  CASE outcome = "notfound" ->
               Returned("[Could not resolve @file:" \o path \o ": file not found]",
                        "@file:" \o path)
          [] outcome = "oserror" ->
               Returned("[Could not resolve @file:" \o path \o ": [Errno 13] Permission denied]",
                        "@file:" \o path)
          [] OTHER ->
               Returned("[Azure Context: File '" \o path \o "']\n" \o "param location string",
                        "file '" \o path \o "'")

\* the lookup outcomes each resolver can meet
Outcomes(kind) ==
    CASE kind = "sub" -> {"env", "ok", "nonzero", "timeout", "badjson"}
      [] kind = "rg" -> {"ok", "nonzero", "timeout", "badjson"}
      [] kind \in {"vm", "aks"} -> {"ok", "notfound", "nonzero", "timeout", "badjson"}
      [] kind = "file" -> {"ok", "notfound", "oserror"}

\* resolver(match): the resolver of the pattern's kind
Resolver(kind, match, outcome) ==
    CASE kind = "sub" -> _resolve_sub(match, outcome)
      [] kind = "rg" -> _resolve_rg(match, outcome)
      [] kind = "vm" -> _resolve_vm(match, outcome)
      [] kind = "aks" -> _resolve_aks(match, outcome)
      [] kind = "file" -> _resolve_file(match, outcome)

\* the number of az subprocesses one resolver call runs
AzCalls(kind, outcome) ==
    CASE kind = "file" -> 0
      [] kind = "sub" /\ outcome = "env" -> 0
      [] kind = "rg" /\ outcome = "ok" -> 2
      [] OTHER -> 1

(***************************************************************************)
(* mentions.py: resolve_mentions                                           *)
(*                                                                         *)
(* One call is a loop over the patterns and, for each pattern, over the    *)
(* matches re.finditer found in the working text as it was when the        *)
(* pattern's scan began.  Each resolver call blocks on the backend, so the *)
(* loop is modelled one resolver call per step; everything between two     *)
(* resolver calls, and the code after the loop, belongs to the step that   *)
(* precedes it.                                                            *)
(***************************************************************************)
RECURSIVE NextPattern(_, _)
\* the first pattern from p on with a match in the working text
NextPattern(p, text) ==
    IF p >= NoMorePatterns THEN NoMorePatterns
    ELSE IF FindIter(p, text) # << >> THEN p
    ELSE NextPattern(p + 1, text)

\* try: resolver(match)  except subprocess.TimeoutExpired: the timeout diagnostic
ResolveOne(kind, match, outcome) ==
    LET r == Resolver(kind, match, outcome)
    IN  IF r.exc = "TimeoutExpired"
        THEN Returned("[Could not resolve " \o match.group0 \o ": timed out after "
                      \o ToString(AZ_TIMEOUT) \o "s]", match.group0)
        ELSE r

\* mutant: the function returns the cleaned text when no mention was found
Finish_ReturnCleaned(text, cl, ctxs) ==
    LET c == Strip(CollapseSpaces(cl))
    IN  [cleaned |-> c,
         result |-> IF ctxs = << >> THEN c
                    ELSE Join(ctxs, "\n\n") \o "\n\nUser question: " \o c]

\* the code after the loop: whitespace clean-up and the returned prompt
Finish(text, cl, ctxs) ==
    LET c == Strip(CollapseSpaces(cl))
    IN  [cleaned |-> c,
         result |-> IF ctxs = << >> THEN text
                    ELSE Join(ctxs, "\n\n") \o "\n\nUser question: " \o c]

\* the loop from pattern p on, with no match of an earlier pattern left:
\* either the next resolver call is reached or the function returns
RunLoop(text, p, cl, ctxs) ==
    LET q == NextPattern(p, cl)
    IN  IF q = NoMorePatterns
        THEN /\ m_pc' = "done"
             /\ m_pat' = q
             /\ m_matches' = << >>
             /\ cleaned' = Finish(text, cl, ctxs).cleaned
             /\ m_result' = Finish(text, cl, ctxs).result
        ELSE /\ m_pc' = "loop"
             /\ m_pat' = q
             /\ m_matches' = FindIter(q, cl)
             /\ cleaned' = cl
             /\ m_result' = None

\* resolve_mentions(text) is called: the code up to the first resolver call
ResolveMentionsBegin(text) ==
    /\ m_input' = text
    /\ contexts' = << >>
    /\ m_log' = << >>
    /\ az_calls' = 0
    /\ RunLoop(text, 1, text, << >>)

\* one resolver call returns (or raises) and the loop goes on
ResolveStep ==
    /\ m_pc = "loop"
    /\ LET match == Head(m_matches)
           kind == MENTION_PATTERNS[m_pat].kind
       IN  \E outcome \in Outcomes(kind) :
              LET r == ResolveOne(kind, match, outcome)
                  cl == ReplaceFirst(cleaned, match.group0, r.replacement)
                  ctxs == Append(contexts, r.context)
              IN  /\ m_log' = Append(m_log, [kind |-> kind, token |-> match.group0,
                                             name |-> match.group1, outcome |-> outcome,
                                             start |-> match.start])
                  /\ az_calls' = az_calls + AzCalls(kind, outcome)
                  /\ IF r.exc # "none"
                     THEN /\ m_pc' = "raised"
                          /\ UNCHANGED <<m_pat, m_matches, cleaned, contexts, m_result>>
                     ELSE /\ contexts' = ctxs
                          /\ IF Len(m_matches) > 1
                             THEN /\ m_matches' = Tail(m_matches)
                                  /\ cleaned' = cl
                                  /\ UNCHANGED <<m_pc, m_pat, m_result>>
                             ELSE RunLoop(m_input, m_pat + 1, cl, ctxs)
    /\ UNCHANGED m_input
    /\ UNCHANGED <<gate_vars, cache_vars, repl_vars>>

\* the fragments generated user inputs are built from
MentionFrags == {"@sub", "@rg:", "@vm:a", "@file:f", " ", "b"}

\* inputs longer than the generated ones
LongInputs ==
    { "scale out @aks:prod to 5 nodes",
      "me@subdomain @sub",
      "@rg:ab @rg:a",
      "@vm:@sub@vm:b",
      "@rg:@vm:x",
      "@sub @rg:x",
      "compare @vm:a and @vm:a",
      "list  all   vms ",
      "show  @rg:web  and @vm:app1 ",
      "@aks:prod @file:main.bicep" }

MentionInputs == Concats(MentionFrags, MaxFrags) \cup LongInputs

\* a caller invokes resolve_mentions on a text
MentionsCall ==
    /\ m_pc = "idle"
    /\ \E text \in MentionInputs : ResolveMentionsBegin(text)
    /\ UNCHANGED <<gate_vars, cache_vars, repl_vars>>

(***************************************************************************)
(* resource_cache.py: the active resource group and its resources          *)
(*                                                                         *)
(* tasks is the sequence of the asyncio tasks set_active_rg has created;   *)
(* _fetch_task is the index of the latest one.  A task is                  *)
(*   "scheduled"      created, its coroutine not yet started               *)
(*   "spawning"       suspended in create_subprocess_shell                 *)
(*   "communicating"  suspended in wait_for(process.communicate(), 15)     *)
(*   "done"           _do_fetch returned                                   *)
(*   "failed"         _do_fetch raised                                     *)
(*   "cancelled"      CancelledError left _do_fetch                        *)
(* cancel is set by Task.cancel(): the event loop throws CancelledError    *)
(* into the coroutine at its next step.  proc is the child process.        *)
(***************************************************************************)
RGNames == {"rg-a", "rg-b"}

\* what `az resource list -g rg` can print on success
FullList(rg) ==
    << [name |-> "vm-" \o rg, type |-> "Microsoft.Compute/virtualMachines",
        location |-> "eastus", resourceGroup |-> rg],
       [name |-> "cdn-" \o rg, type |-> "Microsoft.Cdn/profiles",
        location |-> "global", resourceGroup |-> rg],
       [name |-> "x-" \o rg, resourceGroup |-> rg] >>

AzResourceLists(rg) == { << >>, FullList(rg) }

get_active_rg == _active_rg

get_cached_resources == _cached_resources

ShortTypes ==
    << <<"microsoft.compute/virtualmachines", "vm">>,
       <<"microsoft.containerservice/managedclusters", "aks">>,
       <<"microsoft.storage/storageaccounts", "storage">>,
       <<"microsoft.web/sites", "webapp">>,
       <<"microsoft.sql/servers", "sql">>,
       <<"microsoft.network/virtualnetworks", "vnet">>,
       <<"microsoft.network/networksecuritygroups", "nsg">>,
       <<"microsoft.network/publicipaddresses", "pip">>,
       <<"microsoft.network/loadbalancers", "lb">>,
       <<"microsoft.keyvault/vaults", "kv">>,
       <<"microsoft.containerregistry/registries", "acr">>,
       <<"microsoft.dbforpostgresql/flexibleservers", "pg">>,
       <<"microsoft.dbformysql/flexibleservers", "mysql">>,
       <<"microsoft.insights/components", "appinsights">>,
       <<"microsoft.operationalinsights/workspaces", "loganalytics">> >>

\* mapping.get(full_type.lower(), "")
_short_resource_type(full_type) ==
    LET key == StrLower(full_type)
        hits == {k \in 1..Len(ShortTypes) : ShortTypes[k][1] = key}
    IN  IF hits = {} THEN "" ELSE ShortTypes[CHOOSE k \in hits : TRUE][2]

\* the (mention, description) pairs of a resource list
CompletionsOf(resources) ==
    [k \in 1..Len(resources) |->
        LET r == resources[k]
            name == Get(r, "name", "")
            rtype == Get(r, "type", "")
            location == Get(r, "location", "")
            short_type == _short_resource_type(rtype)
        IN  << IF short_type # "" THEN "@" \o short_type \o ":" \o name ELSE "@" \o name,
               rtype \o " (" \o location \o ")" >>]

get_resource_completions == CompletionsOf(_cached_resources)

Pending(t) == t.st \in {"scheduled", "spawning", "communicating"}

NewTask(rg) == [rg |-> rg, st |-> "scheduled", cancel |-> FALSE, proc |-> "none",
                outcome |-> "none", fetched |-> << >>]

\* mutant: set_active_rg without the cancellation of the in-flight fetch
CancelInFlight_Skip(ts, cur) == ts

\* if _fetch_task and not _fetch_task.done(): _fetch_task.cancel()
CancelInFlight(ts, cur) ==
    IF cur # NoTask /\ Pending(ts[cur])
    THEN [ts EXCEPT ![cur].cancel = TRUE]
    ELSE ts

\* mutant: set_active_rg keeps the list cached for the previous group
ClearedResources_Keep == _cached_resources

\* _cached_resources = []
ClearedResources == << >>

\* set_active_rg(rg_name): no await before create_task, so it runs in one step
SetActiveRg ==
    /\ Len(tasks) < MaxSets
    /\ \E rg_name \in RGNames :
          /\ _active_rg' = rg_name
          /\ _cached_resources' = ClearedResources
          /\ tasks' = Append(CancelInFlight(tasks, _fetch_task), NewTask(rg_name))
          /\ _fetch_task' = Len(tasks) + 1
    /\ UNCHANGED <<gate_vars, mention_vars, repl_vars>>

\* the event loop throws CancelledError into a task whose cancellation was
\* requested: it passes `except (TimeoutError, JSONDecodeError)` and ends the
\* task before the assignment to _cached_resources; the child is not killed
TaskCancelled ==
    /\ \E i \in 1..Len(tasks) :
          /\ Pending(tasks[i])
          /\ tasks[i].cancel
          /\ tasks' = [tasks EXCEPT ![i].st = "cancelled"]
    /\ UNCHANGED <<_active_rg, _cached_resources, _fetch_task>>
    /\ UNCHANGED <<gate_vars, mention_vars, repl_vars>>

\* the task starts: _do_fetch runs up to `await create_subprocess_shell`
TaskStart ==
    /\ \E i \in 1..Len(tasks) :
          /\ tasks[i].st = "scheduled"
          /\ ~tasks[i].cancel
          /\ tasks' = [tasks EXCEPT ![i].st = "spawning"]
    /\ UNCHANGED <<_active_rg, _cached_resources, _fetch_task>>
    /\ UNCHANGED <<gate_vars, mention_vars, repl_vars>>

\* create_subprocess_shell returns the child, or raises OSError (not caught)
TaskSpawned ==
    /\ \E i \in 1..Len(tasks) :
          /\ tasks[i].st = "spawning"
          /\ ~tasks[i].cancel
          /\ \/ tasks' = [tasks EXCEPT ![i].st = "communicating", ![i].proc = "running"]
             \/ tasks' = [tasks EXCEPT ![i].st = "failed"]
    /\ UNCHANGED <<_active_rg, _cached_resources, _fetch_task>>
    /\ UNCHANGED <<gate_vars, mention_vars, repl_vars>>

\* mutant: the output of the child is used whatever its exit code
FetchValue_IgnoreExit(outcome, listed) == listed

\* the list _fetch_resources returns for an outcome of the child
FetchValue(outcome, listed) == IF outcome = "ok" THEN listed ELSE << >>

\* communicate() ends or the 15 s timeout expires: _fetch_resources returns and
\* _do_fetch stores the list; on timeout the child is left running
TaskFetched ==
    /\ \E i \in 1..Len(tasks) :
          /\ tasks[i].st = "communicating"
          /\ ~tasks[i].cancel
          /\ \E outcome \in {"ok", "nonzero", "timeout", "badjson"} :
             \E listed \in AzResourceLists(tasks[i].rg) :
                /\ outcome \in {"timeout", "badjson"} => listed = << >>
                /\ _cached_resources' = FetchValue(outcome, listed)
                /\ tasks' = [tasks EXCEPT ![i].st = "done",
                                          ![i].outcome = IF outcome = "ok" THEN "ok"
                                                          ELSE "failed",
                                          ![i].fetched = FetchValue(outcome, listed),
                                          ![i].proc = IF outcome = "timeout" THEN "running"
                                                      ELSE "exited"]
    /\ UNCHANGED <<_active_rg, _fetch_task>>
    /\ UNCHANGED <<gate_vars, mention_vars, repl_vars>>

(***************************************************************************)
(* commands.py: the slash-command dispatch                                 *)
(***************************************************************************)
RECURSIVE FirstSpace(_, _)
\* the index of the first whitespace character from i on, Len(s) + 1 when none
FirstSpace(s, i) ==
    IF i > Len(s) THEN Len(s) + 1
    ELSE IF IsSpaceCh(Ch(s, i)) THEN i
    ELSE FirstSpace(s, i + 1)

\* stripped.split(maxsplit=1) of a stripped, non-empty text
SplitOnce(stripped) ==
    LET k == FirstSpace(stripped, 1)
    IN  IF k > Len(stripped) THEN << stripped >>
        ELSE << SubSeq(stripped, 1, k - 1), LStrip(SubSeq(stripped, k, Len(stripped))) >>

Handled(r) == [exc |-> "none", result |-> r]

\* _handle_sub: `az account set` through subprocess.run(timeout=30), which
\* raises TimeoutExpired; the listing goes through _run_az, which catches it
_handle_sub(arg, outcome) ==
    IF arg # None /\ arg # ""
    THEN IF outcome = "timeout"
         THEN [exc |-> "TimeoutExpired", result |-> None]
         ELSE Handled("handled")
    ELSE Handled("handled")

_handle_env(arg, outcome) == Handled("handled")

_handle_help(arg, outcome) == Handled("handled")

_handle_clear(arg, outcome) == Handled("clear")

_handle_exit(arg, outcome) == Handled("exit")

\* the keys of the handlers table
handlers == {"/sub", "/env", "/help", "/clear", "/exit", "/quit"}

\* mutant: an unknown slash command is reported as not a command
handle_command_UnknownIsNone(command, outcome) ==
    LET stripped == Strip(command)
    IN  IF ~StartsAt(stripped, 1, "/") THEN Handled(None)
        ELSE LET parts == SplitOnce(stripped)
                 cmd == StrLower(parts[1])
                 arg == IF Len(parts) > 1 THEN parts[2] ELSE None
             IN  CASE cmd = "/sub" -> _handle_sub(arg, outcome)
                   [] cmd = "/env" -> _handle_env(arg, outcome)
                   [] cmd = "/help" -> _handle_help(arg, outcome)
                   [] cmd = "/clear" -> _handle_clear(arg, outcome)
                   [] cmd \in {"/exit", "/quit"} -> _handle_exit(arg, outcome)
                   [] OTHER -> Handled(None)

\* handle_command: None when the text is no command, else the handler's sentinel
handle_command(command, outcome) ==
    LET stripped == Strip(command)
    IN  IF ~StartsAt(stripped, 1, "/") THEN Handled(None)
        ELSE LET parts == SplitOnce(stripped)
                 cmd == StrLower(parts[1])
                 arg == IF Len(parts) > 1 THEN parts[2] ELSE None
             IN  CASE cmd = "/sub" -> _handle_sub(arg, outcome)
                   [] cmd = "/env" -> _handle_env(arg, outcome)
                   [] cmd = "/help" -> _handle_help(arg, outcome)
                   [] cmd = "/clear" -> _handle_clear(arg, outcome)
                   [] cmd \in {"/exit", "/quit"} -> _handle_exit(arg, outcome)
                   [] OTHER -> Handled("handled")

\* the outcomes of the az call a command makes; no call, one outcome
CommandOutcomes(command) ==
    LET cmd == StrLower(SplitOnce(Strip(command))[1])
    IN  IF cmd = "/sub" /\ Len(SplitOnce(Strip(command))) > 1 THEN {"ok", "nonzero", "timeout"}
        ELSE IF cmd \in {"/sub", "/env"} THEN {"ok", "nonzero", "timeout", "badjson"}
        ELSE {"ok"}

(***************************************************************************)
(* repl.py: run_repl                                                       *)
(*                                                                         *)
(* pc is the position of run_repl:                                         *)
(*   "start"        before create_agent                                    *)
(*   "init_failed"  create_agent raised: error reported, run_repl returned *)
(*   "prompt"       awaiting prompt_async                                  *)
(*   "command"      a non-empty line was read, handle_command is running   *)
(*   "resolve"      resolve_mentions is running                            *)
(*   "send"         awaiting session.send_and_wait                         *)
(*   "exited"       the loop was left, cleanup ran, run_repl returned      *)
(*   "interrupted"  Ctrl-C during a turn: cleanup ran in `finally`         *)
(*   "crashed"      an exception left the loop: cleanup ran in `finally`   *)
(*                  and the exception left run_repl and asyncio.run        *)
(***************************************************************************)
SLASH_COMMANDS == {"/sub", "/rg", "/help", "/clear", "/exit", "/quit"}

\* the lines the user types
ReplLines ==
    { "/help", "/HELP", " /env ", "/rg web", "/sub", "/sub prod", "/clear",
      "/exit", "/quit", "/bogus", "/", "", "   ", "hello", "  what is  up ",
      "list vms in @rg:web", "@sub status" }

\* the deltas of one response held in response_buffer at most
MaxDeltas == 2

\* event.data.delta_content of the deltas the runtime streams
DeltaContents == {"Hi", None}

\* mutant: the prompt is submitted without the active-scope directive
WithActiveRg_Never(active_rg, text) == text

\* the prompt with the active-scope directive prepended when a scope is set
WithActiveRg(active_rg, text) ==
    IF active_rg # None /\ active_rg # ""
    THEN "[Active Resource Group: " \o active_rg \o "]\n"
         \o "When I say 'this resource group' I mean '" \o active_rg \o "'.\n\n"
         \o text
    ELSE text

\* the reports run_repl itself prints
InitError == "Error initializing agent"
Goodbye == "Goodbye!"
Thinking == "Thinking..."
TimeoutWarning == "Response timed out."
SendError == "Error"

\* what run_repl printed in its last step: a report and the rendered markdown
Printed(report, markdown) == [report |-> report, markdown |-> markdown]
Quiet == Printed(None, None)

\* mutant: cleanup without try/finally, the stop is skipped when destroy raises
cleanup_NoFinally(cl, se, destroy_ok) ==
    IF destroy_ok
    THEN [session |-> "destroyed", client |-> "stopped"]
    ELSE [session |-> "destroy_failed", client |-> cl]

\* cleanup: session.destroy() returns or raises, client.stop() runs in `finally`
cleanup(cl, se, destroy_ok) ==
    [session |-> IF destroy_ok THEN "destroyed" ELSE "destroy_failed",
     client  |-> "stopped"]

\* the `finally` of run_repl: one call of cleanup; run_repl is left, its
\* response_buffer is gone and the stopped client streams nothing more
Cleanup ==
    /\ cleanup_runs' = cleanup_runs + 1
    /\ \E destroy_ok \in BOOLEAN :
          LET c == cleanup(client, session, destroy_ok)
          IN  /\ session' = c.session
              /\ client' = c.client
    /\ response_buffer' = << >>
    /\ delta_turns' = << >>
    /\ late_work' = FALSE

\* create_agent returns the started client and the session, or raises before
\* or after client.start(); the error is reported and run_repl returns
CreateAgent ==
    /\ pc = "start"
    /\ \/ /\ pc' = "prompt"
          /\ client' = "started"
          /\ session' = "open"
          /\ console' = Quiet
       \/ /\ pc' = "init_failed"
          /\ client' \in {"none", "started"}
          /\ session' = "none"
          /\ console' = Printed(InitError, None)
    /\ UNCHANGED <<user_input, result, resolved_text, response_buffer, delta_turns,
                   late_work, cleanup_runs>>
    /\ UNCHANGED <<gate_vars, mention_vars, cache_vars>>

\* mutant: the next line is read while send_and_wait is still pending
ReadLine_WhileSending ==
    /\ pc \in {"prompt", "send"}
    /\ \E line \in ReplLines :
          /\ user_input' = Strip(line)
          /\ pc' = IF Strip(line) = "" THEN "prompt" ELSE "command"
    /\ console' = Quiet
    /\ UNCHANGED <<result, resolved_text, response_buffer, delta_turns, late_work,
                   cleanup_runs, client, session>>
    /\ UNCHANGED <<gate_vars, mention_vars, cache_vars>>

\* prompt_async returns a line: an empty line goes back to the prompt
ReadLine ==
    /\ pc = "prompt"
    /\ \E line \in ReplLines :
          /\ user_input' = Strip(line)
          /\ pc' = IF Strip(line) = "" THEN "prompt" ELSE "command"
    /\ console' = Quiet
    /\ UNCHANGED <<result, resolved_text, response_buffer, delta_turns, late_work,
                   cleanup_runs, client, session>>
    /\ UNCHANGED <<gate_vars, mention_vars, cache_vars>>

\* prompt_async raises KeyboardInterrupt or EOFError: break, then cleanup
PromptInterrupted ==
    /\ pc = "prompt"
    /\ pc' = "exited"
    /\ console' = Printed(Goodbye, None)
    /\ Cleanup
    /\ UNCHANGED <<user_input, result, resolved_text>>
    /\ UNCHANGED <<gate_vars, mention_vars, cache_vars>>

\* Ctrl-C while a turn runs: the interrupt leaves the loop through the outer
\* try statement, whose `finally` runs cleanup; no resolver catches it, so a
\* resolve_mentions that is running is left too
TurnInterrupted ==
    /\ pc \in {"command", "resolve", "send"}
    /\ pc' = "interrupted"
    /\ console' = Printed(Goodbye, None)
    /\ Cleanup
    /\ m_pc' = IF m_pc = "loop" THEN "raised" ELSE m_pc
    /\ UNCHANGED <<m_input, m_matches, m_pat, cleaned, contexts, m_log, m_result, az_calls>>
    /\ UNCHANGED <<user_input, result, resolved_text>>
    /\ UNCHANGED <<gate_vars, cache_vars>>

\* handle_command returns or raises; on None the turn goes on to
\* resolve_mentions, up to its first resolver call
HandleCommand ==
    /\ pc = "command"
    /\ \E outcome \in CommandOutcomes(user_input) :
          LET r == handle_command(user_input, outcome)
          IN  IF r.exc # "none"
              THEN /\ pc' = "crashed"
                   /\ Cleanup
                   /\ UNCHANGED <<result, mention_vars>>
              ELSE /\ result' = r.result
                   /\ IF r.result = "exit"
                      THEN /\ pc' = "exited"
                           /\ Cleanup
                           /\ UNCHANGED mention_vars
                      ELSE IF r.result \in {"clear", "handled"}
                      THEN /\ pc' = "prompt"
                           /\ UNCHANGED <<cleanup_runs, client, session, mention_vars>>
                           /\ UNCHANGED <<response_buffer, delta_turns, late_work>>
                      ELSE /\ pc' = "resolve"
                           /\ ResolveMentionsBegin(user_input)
                           /\ UNCHANGED <<cleanup_runs, client, session>>
                           /\ UNCHANGED <<response_buffer, delta_turns, late_work>>
    /\ console' = Quiet
    /\ UNCHANGED <<user_input, resolved_text>>
    /\ UNCHANGED <<gate_vars, cache_vars>>

\* resolve_mentions has returned (or raised): the scope directive is
\* prepended, the buffer is cleared and the prompt is submitted
SubmitPrompt ==
    /\ pc = "resolve"
    /\ m_pc \in {"done", "raised"}
    /\ IF m_pc = "raised"
       THEN /\ pc' = "crashed"
            /\ console' = Quiet
            /\ Cleanup
            /\ UNCHANGED resolved_text
       ELSE /\ resolved_text' = WithActiveRg(get_active_rg, m_result)
            /\ response_buffer' = << >>
            /\ delta_turns' = << >>
            /\ console' = Printed(Thinking, None)
            /\ pc' = "send"
            /\ UNCHANGED <<cleanup_runs, client, session, late_work>>
    /\ UNCHANGED <<user_input, result>>
    /\ UNCHANGED <<gate_vars, mention_vars, cache_vars>>

\* the deltas the runtime may stream while a turn waits: those that answer
\* the turn's own prompt, and those that answer an earlier prompt whose
\* send_and_wait timed out
StreamedDeltas ==
    { [turn |-> "this", content |-> c] : c \in DeltaContents }
    \cup (IF late_work THEN { [turn |-> "earlier", content |-> "Hi"] } ELSE {})

\* handle_event: an ASSISTANT_MESSAGE_DELTA arrives while the turn waits; the
\* deltas that arrive while no turn waits are dropped by the next turn's clear
MessageDelta ==
    /\ pc = "send"
    /\ Len(response_buffer) < MaxDeltas
    /\ \E delta \in StreamedDeltas :
          /\ response_buffer' = Append(response_buffer,
                                       IF delta.content = None THEN "" ELSE delta.content)
          /\ delta_turns' = Append(delta_turns, delta.turn)
    /\ UNCHANGED <<pc, user_input, result, resolved_text, late_work, console,
                   cleanup_runs, client, session>>
    /\ UNCHANGED <<gate_vars, mention_vars, cache_vars>>

\* the outcomes of send_and_wait: it returns when the session is idle, or
\* raises asyncio.TimeoutError after 300 s, or raises another Exception
SendOutcomes == {"ok", "timeout", "error"}

\* the report of the handler that catches the outcome
SendReport(outcome) ==
    IF outcome = "timeout" THEN TimeoutWarning
    ELSE IF outcome = "error" THEN SendError
    ELSE None

\* mutant: nothing is rendered
Render_Nothing(buffer) == None

\* `if response_buffer:` the joined deltas are rendered as markdown
Render(buffer) == IF buffer # << >> THEN Join(buffer, "") ELSE None

\* send_and_wait returns, or raises TimeoutError or another Exception: both
\* handlers report, the buffer is rendered and the loop reads the next line;
\* a timeout does not stop the agent, which goes on answering the prompt
SendReturns ==
    /\ pc = "send"
    /\ \E outcome \in SendOutcomes :
          /\ console' = Printed(SendReport(outcome), Render(response_buffer))
          /\ late_work' = IF outcome = "timeout" THEN TRUE
                          ELSE IF outcome = "ok" THEN FALSE
                          ELSE late_work
    /\ pc' = "prompt"
    /\ UNCHANGED <<user_input, result, resolved_text, response_buffer, delta_turns,
                   cleanup_runs, client, session>>
    /\ UNCHANGED <<gate_vars, mention_vars, cache_vars>>

(***************************************************************************)
(* Initial state and specifications                                        *)
(***************************************************************************)
Init ==
    /\ tool_event = None
    /\ permission = None
    /\ post_result = << >>
    /\ m_pc = "idle"
    /\ m_input = ""
    /\ m_matches = << >>
    /\ m_pat = 1
    /\ cleaned = ""
    /\ contexts = << >>
    /\ m_log = << >>
    /\ m_result = None
    /\ az_calls = 0
    /\ _active_rg = None
    /\ _cached_resources = << >>
    /\ _fetch_task = NoTask
    /\ tasks = << >>
    /\ pc = "start"
    /\ user_input = ""
    /\ result = None
    /\ resolved_text = ""
    /\ response_buffer = << >>
    /\ cleanup_runs = 0
    /\ console = Quiet
    /\ client = "none"
    /\ session = "none"
    /\ delta_turns = << >>
    /\ late_work = FALSE

\* the safety gate, driven by the agent runtime's tool events
NextGate == PreToolUse \/ PostToolUse

SpecGate == Init /\ [][NextGate]_vars

\* resolve_mentions as a function of its input and the lookups' outcomes
NextMentions == MentionsCall \/ ResolveStep

SpecMentions == Init /\ [][NextMentions]_vars

\* the cache module, driven by set_active_rg calls and the event loop
TaskStep == TaskCancelled \/ TaskStart \/ TaskSpawned \/ TaskFetched

NextCache == SetActiveRg \/ TaskStep

SpecCache == Init /\ [][NextCache]_vars

\* the event loop runs every task that is ready
SpecCacheFair == SpecCache /\ WF_vars(TaskStep)

\* the REPL: the user's lines, the backend's outcomes and the runtime's events
NextRepl ==
    \/ CreateAgent
    \/ ReadLine
    \/ PromptInterrupted
    \/ TurnInterrupted
    \/ HandleCommand
    \/ ResolveStep
    \/ SubmitPrompt
    \/ MessageDelta
    \/ SendReturns

SpecRepl == Init /\ [][NextRepl]_vars

\* the turns of the REPL in a process where set_active_rg is called between
\* its steps; the refresh tasks and the streamed deltas, which no step of a
\* turn reads, are followed in SpecCache and SpecRepl
NextSession ==
    \/ SetActiveRg
    \/ CreateAgent
    \/ ReadLine
    \/ PromptInterrupted
    \/ TurnInterrupted
    \/ HandleCommand
    \/ ResolveStep
    \/ SubmitPrompt
    \/ SendReturns

SpecSession == Init /\ [][NextSession]_vars

(***************************************************************************)
(* Claims                                                                  *)
(***************************************************************************)

\* the destructive keywords as the specification lists them
C1_Keywords ==
    { "delete", "destroy", "remove", "drop", "purge",
      "az group delete", "terraform destroy", "kubectl delete", "rm -rf" }

C1_HasKeyword(text) ==
    \E kw \in C1_Keywords : \E i \in 1..Len(text) : StartsAt(text, i, kw)

C1_IsRunCommand == permission # None /\ Get(tool_event, "toolName", "unknown") = "run_command"

\* C1 (SpecGate): for every pre-tool-use event whose tool is run_command the
\* decision is "ask" when the lower-cased command text contains a
\* destructive keyword as a substring, and "allow" otherwise.
C1_DestructiveGate ==
    C1_IsRunCommand =>
        permission = IF C1_HasKeyword(StrLower(EventCommand(tool_event)))
                     THEN "ask" ELSE "allow"

\* C1 witness: a run_command event whose command contains `rm -rf` in another
\* letter case than the keyword list was answered "ask".
C1_Witness ==
    /\ C1_IsRunCommand
    /\ permission = "ask"
    /\ StrIn("rm -rf", StrLower(EventCommand(tool_event)))
    /\ EventCommand(tool_event) # StrLower(EventCommand(tool_event))

C2_CacheMatchesScope ==
    \/ _cached_resources = << >>
    \/ /\ _active_rg # None
       /\ _cached_resources \in AzResourceLists(_active_rg)

\* C2 (SpecCache): in every state the cached resource list is empty or a list
\* fetched for the active resource group; a step of set_active_rg leaves the
\* cache empty; a step of a task that is not the latest one never changes the
\* cache.
C2_ScopeConsistency ==
    /\ []C2_CacheMatchesScope
    /\ [][Len(tasks') > Len(tasks) => _cached_resources' = << >>]_vars
    /\ [][\A i \in 1..Len(tasks) :
             (i # _fetch_task /\ tasks'[i] # tasks[i] /\ Len(tasks') = Len(tasks))
                 => _cached_resources' = _cached_resources]_vars

\* C2 witness: a refresh of another group was superseded and cancelled, and
\* the cache holds the resources fetched for the active group.
C2_Witness ==
    /\ _cached_resources # << >>
    /\ \E i \in 1..Len(tasks) :
          /\ i # _fetch_task
          /\ tasks[i].st = "cancelled"
          /\ tasks[i].rg # _active_rg

\* the n-th set_active_rg call is the latest one and was made before the
\* refresh of the call before it had completed
C3_Superseded(n) ==
    /\ Len(tasks) = n
    /\ tasks[n - 1].st \notin {"done", "failed"}

C3_OnlyActiveScope ==
    get_resource_completions \in {CompletionsOf(l) : l \in AzResourceLists(_active_rg)}

C3_Settled(n) ==
    \/ Len(tasks) > n
    \/ /\ Len(tasks) = n
       /\ tasks[n].st \in {"done", "failed"}
       /\ tasks[n].st = "done" => get_resource_completions = CompletionsOf(tasks[n].fetched)

\* C3 (SpecCacheFair): once a set_active_rg call has superseded an unfinished
\* refresh, the completions are never built from another group's resources,
\* and unless the scope changes again the new refresh ends and, when it
\* succeeded, the completions are exactly those of the list it fetched.
C3_ScopeReplacement ==
    \A n \in 2..MaxSets :
        /\ [](C3_Superseded(n) => [](Len(tasks) = n => C3_OnlyActiveScope))
        /\ C3_Superseded(n) ~> C3_Settled(n)

\* C3 witness: the refresh of rg-a was superseded by set_active_rg("rg-b"),
\* whose refresh is done and is what the completions show.
C3_Witness ==
    /\ Len(tasks) = 2
    /\ tasks[1].rg = "rg-a" /\ tasks[1].cancel
    /\ tasks[2].rg = "rg-b" /\ tasks[2].st = "done"
    /\ get_resource_completions = CompletionsOf(FullList("rg-b"))

\* C4 (SpecRepl), as claimed: no failure of a turn terminates the session,
\* the exception never leaves run_repl.
C4_TurnFailureContained == pc # "crashed"

C5_Failed(outcome) == outcome \in {"nonzero", "timeout", "badjson", "notfound", "oserror"}

C5_IsDiagnostic(context) == StartsAt(context, 1, "[Could not resolve ")

C5_BlockHead(entry) ==
    CASE entry.kind = "sub" /\ entry.outcome = "env" -> "[Azure Context: Current Subscription]"
      [] entry.kind = "sub" /\ entry.outcome # "env" -> "[Azure Context: Subscription '"
      [] entry.kind = "rg" -> "[Azure Context: Resource Group '" \o entry.name \o "']"
      [] entry.kind = "vm" -> "[Azure Context: VM '" \o entry.name \o "']"
      [] entry.kind = "aks" -> "[Azure Context: AKS Cluster '" \o entry.name \o "']"
      [] entry.kind = "file" -> "[Azure Context: File '" \o entry.name \o "']"

\* C5 (SpecMentions): resolve_mentions never raises; every mention it matched
\* is resolved; a mention's context block is a bracketed diagnostic exactly
\* when its own lookup failed, and the block of its entity otherwise; the
\* function returns the augmented prompt.
C5_FailureContainment ==
    /\ m_pc # "raised"
    /\ m_pc \in {"loop", "done"} => Len(contexts) = Len(m_log)
    /\ m_pc = "done" =>
          /\ \A i \in 1..Len(m_log) :
                IF C5_Failed(m_log[i].outcome)
                THEN /\ C5_IsDiagnostic(contexts[i])
                     /\ StartsAt(contexts[i], 1, "[Could not resolve " \o m_log[i].token \o ": ")
                ELSE StartsAt(contexts[i], 1, C5_BlockHead(m_log[i]))
          /\ m_log # << >> => StrIn("\n\nUser question: ", m_result)

\* C5 witness: a call returned in which one mention's lookup failed and
\* another mention of the same input was resolved.
C5_Witness ==
    /\ m_pc = "done"
    /\ \E i, j \in 1..Len(m_log) :
          C5_Failed(m_log[i].outcome) /\ ~C5_Failed(m_log[j].outcome)

\* no mention grammar matches in the text
NoMentionIn(text) == \A p \in 1..Len(MENTION_PATTERNS) : FindIter(p, text) = << >>

RECURSIVE C6_CountFrom(_, _)
C6_CountFrom(p, text) ==
    IF p > Len(MENTION_PATTERNS) THEN 0
    ELSE Len(FindIter(p, text)) + C6_CountFrom(p + 1, text)

\* the mention tokens of the input: the matches of each grammar in the input
C6_NumTokens(text) == C6_CountFrom(1, text)

\* C6 (SpecMentions), as claimed: the number of context blocks equals the
\* number of mention tokens of the input.
C6_OneBlockPerToken == m_pc = "done" => Len(contexts) = C6_NumTokens(m_input)

C7_TokensStandAlone(text) ==
    \A i \in 1..Len(text) :
        Ch(text, i) = "@" =>
            /\ i = 1 \/ IsSpaceCh(Ch(text, i - 1))
            /\ \E p \in 1..Len(MENTION_PATTERNS) : MatchEnd(p, text, i) # 0

C7_AllResolved == \A i \in 1..Len(m_log) : ~C5_Failed(m_log[i].outcome)

C8_MentionFreeUnchanged ==
    (m_pc = "done" /\ NoMentionIn(m_input)) =>
        /\ m_result = m_input
        /\ contexts = << >>
        /\ az_calls = 0

\* C8 witness: a mention-free input that the whitespace clean-up would
\* change was returned.
C8_Witness ==
    /\ m_pc = "done"
    /\ NoMentionIn(m_input)
    /\ StrIn("@", m_input)
    /\ Strip(CollapseSpaces(m_input)) # m_input

\* C9 (SpecRepl): a line that starts with `/` never reaches resolve_mentions
\* or session.send_and_wait.
C9_SlashNeverSent == pc \in {"resolve", "send"} => ~StartsAt(user_input, 1, "/")

\* C9 witness: an unknown slash command, and a known one in upper case, were
\* handled locally and the loop is back at the prompt.
C9_Witness ==
    /\ pc = "prompt"
    /\ user_input \in {"/bogus", "/HELP"}
    /\ result = "handled"

\* C10 (SpecRepl), as claimed: after `/rg web` was handled the active scope
\* is web.
C10_RgCommandSetsScope ==
    (pc = "prompt" /\ user_input = "/rg web" /\ result = "handled") => get_active_rg = "web"

\* C11 (SpecSession), as claimed: the step in which `/sub prod` is handled
\* and returns (the switch succeeded) leaves no active scope and an empty
\* resource list.
C11_SubSwitchClearsScope ==
    [][(pc = "command" /\ user_input = "/sub prod" /\ pc' = "prompt")
          => (get_active_rg' = None /\ get_cached_resources' = << >>)]_vars

\* C12 (SpecCache), as claimed: when a refresh has ended, by returning, by
\* its timeout or by cancellation, its child process is not left running.
C12_NoOrphanedChild ==
    \A i \in 1..Len(tasks) :
        tasks[i].st \in {"done", "cancelled", "failed"} => tasks[i].proc # "running"

C13_PatternOf(kind) ==
    CHOOSE p \in 1..Len(MENTION_PATTERNS) : MENTION_PATTERNS[p].kind = kind

\* the token and the identifier of a resolver call are those of a match of
\* its grammar in the text
C13_MatchedIn(entry, text) ==
    LET found == FindIter(C13_PatternOf(entry.kind), text)
    IN  \E k \in 1..Len(found) :
           found[k].group0 = entry.token /\ found[k].group1 = entry.name

\* C13 (SpecMentions), as claimed: every token a resolver was called for is a
\* match of that resolver's grammar in the original input, with the
\* identifier captured there; text put in by an earlier replacement is never
\* matched as a token.
C13_NoRematch ==
    m_pc = "done" => \A i \in 1..Len(m_log) : C13_MatchedIn(m_log[i], m_input)

\* the blocks from the k-th on, each followed by a blank line
RECURSIVE C14_BlocksFrom(_, _)
C14_BlocksFrom(blocks, k) ==
    IF k > Len(blocks) THEN ""
    ELSE blocks[k] \o "\n\n" \o C14_BlocksFrom(blocks, k + 1)

C14_EndsWith(s, suffix) ==
    /\ Len(s) >= Len(suffix)
    /\ SubSeq(s, Len(s) - Len(suffix) + 1, Len(s)) = suffix

\* the i-th resolver call comes before the j-th in match order
C14_Before(i, j) ==
    \/ C13_PatternOf(m_log[i].kind) < C13_PatternOf(m_log[j].kind)
    \/ /\ m_log[i].kind = m_log[j].kind
       /\ m_log[i].start < m_log[j].start

\* the block of a resolver call: the diagnostic of its token, or the block
\* of its entity
C14_IsBlockOf(context, entry) ==
    IF C5_Failed(entry.outcome)
    THEN StartsAt(context, 1, "[Could not resolve " \o entry.token \o ": ")
    ELSE StartsAt(context, 1, C5_BlockHead(entry))

\* C14 (SpecMentions): when a mention was found the result is the context
\* blocks, one per resolver call and in match order (grammars in priority
\* order, left to right within a grammar), each followed by a blank line,
\* then "User question: " and the cleaned text; the @aks example gives the
\* block and the question the claim quotes.
C14_PreambleInMatchOrder ==
    (m_pc = "done" /\ m_log # << >>) =>
        /\ m_result = C14_BlocksFrom(contexts, 1) \o "User question: " \o cleaned
        /\ Len(contexts) = Len(m_log)
        /\ \A i \in 1..Len(m_log) : C14_IsBlockOf(contexts[i], m_log[i])
        /\ \A i, j \in 1..Len(m_log) : i < j => C14_Before(i, j)
        /\ (m_input = "scale out @aks:prod to 5 nodes" /\ m_log[1].outcome = "ok") =>
              /\ StartsAt(m_result, 1, "[Azure Context: AKS Cluster 'prod']\n")
              /\ C14_EndsWith(m_result,
                              "\n\nUser question: scale out AKS cluster 'prod' to 5 nodes")

\* C14 witness: a call returned that resolved a token of one grammar and
\* then two different tokens of a later grammar.
C14_Witness ==
    /\ m_pc = "done"
    /\ Len(m_log) = 3
    /\ m_log[1].kind # m_log[2].kind
    /\ m_log[2].kind = m_log[3].kind
    /\ m_log[2].token # m_log[3].token

\* C15 (SpecRepl): while a send_and_wait is pending no line is read and no
\* prompt is submitted; a prompt is submitted only by the turn whose mentions
\* were just resolved; a line is read only at the prompt, after the turn
\* before it has returned there.
C15_TurnsSequential ==
    /\ [][pc = "send" =>
             /\ user_input' = user_input
             /\ resolved_text' = resolved_text
             /\ pc' \notin {"command", "resolve"}]_vars
    /\ [][(pc' = "send" /\ pc # "send") => (pc = "resolve" /\ m_pc = "done")]_vars
    /\ [][(pc' = "command" \/ user_input' # user_input) => pc = "prompt"]_vars

\* C15 witness: a line was read after a turn whose prompt was submitted and
\* whose response was streamed and rendered.
C15_Witness ==
    /\ pc = "command"
    /\ resolved_text # ""
    /\ response_buffer # << >>

\* the block is `[Could not resolve <token>: <reason>]`
C16_IsDiagnosticOf(context, token) ==
    /\ StartsAt(context, 1, "[Could not resolve " \o token \o ": ")
    /\ C14_EndsWith(context, "]")
    /\ Len(context) > Len("[Could not resolve " \o token \o ": ]")

\* C16 (SpecMentions): a resolver call whose lookup failed appends the
\* diagnostic `[Could not resolve <token>: <reason>]` of the matched token
\* and leaves the working text as it was (the call that ends the loop also
\* applies the final whitespace clean-up).
C16_FailedMentionKeepsToken ==
    [][(m_pc = "loop" /\ Len(m_log') = Len(m_log) + 1
          /\ C5_Failed(m_log'[Len(m_log')].outcome)) =>
            /\ Len(contexts') = Len(contexts) + 1
            /\ C16_IsDiagnosticOf(contexts'[Len(contexts')], Head(m_matches).group0)
            /\ cleaned' \in {cleaned, Strip(CollapseSpaces(cleaned))}]_vars

\* C16 witness: the lookups of a @vm and of a @file mention failed and the
\* returned text still holds both literal tokens.
C16_Witness ==
    /\ m_pc = "done"
    /\ \E i, j \in 1..Len(m_log) :
          /\ m_log[i].kind = "vm" /\ m_log[j].kind = "file"
          /\ C5_Failed(m_log[i].outcome) /\ C5_Failed(m_log[j].outcome)
          /\ StrIn(m_log[i].token, cleaned) /\ StrIn(m_log[j].token, cleaned)

\* the text with the span of match replaced by label, after the whitespace
\* clean-up
C17_SpanReplaced(text, match, label) ==
    Strip(CollapseSpaces(SubSeq(text, 1, match.start - 1) \o label
                         \o SubSeq(text, match.end + 1, Len(text))))

\* C17 (SpecMentions), as claimed: a substitution replaces the span of the
\* matched token and nothing else: for an input with one token the cleaned
\* text is the input with that span replaced by the label; in `@rg:ab @rg:a`
\* with the first lookup failed and the second successful only the second
\* token is replaced.
C17_OnlyMatchedSpanReplaced ==
    /\ (m_pc = "done" /\ Len(m_log) = 1 /\ C6_NumTokens(m_input) = 1) =>
          LET p == C13_PatternOf(m_log[1].kind)
              match == FindIter(p, m_input)[1]
              label == ResolveOne(m_log[1].kind, match, m_log[1].outcome).replacement
          IN  cleaned = C17_SpanReplaced(m_input, match, label)
    /\ (m_pc = "done" /\ m_input = "@rg:ab @rg:a" /\ Len(m_log) = 2
           /\ C5_Failed(m_log[1].outcome) /\ ~C5_Failed(m_log[2].outcome)) =>
          cleaned = "@rg:ab resource group 'a'"

C18_ToolName == Get(tool_event, "toolName", "unknown")

\* C18 (SpecGate): an event whose tool is not run_command or
\* get_azure_context is answered "allow" whatever its arguments, and so is
\* every get_azure_context event; the post-tool-use hook returns the empty
\* result and leaves the decision as it was.
C18_OnlyRunCommandGated ==
    /\ [](permission # None =>
            /\ C18_ToolName \notin {"run_command", "get_azure_context"} => permission = "allow"
            /\ C18_ToolName = "get_azure_context" => permission = "allow"
            /\ post_result # << >> => DOMAIN post_result[1] = {})
    /\ [][permission # None => permission' = permission]_vars

\* C18 witness: a get_azure_context event whose arguments hold `rm -rf` was
\* allowed and its post-tool-use hook has returned.
C18_Witness ==
    /\ permission = "allow"
    /\ C18_ToolName = "get_azure_context"
    /\ StrIn("rm -rf", EventCommand(tool_event))
    /\ post_result # << >>

C19_Finished(t) == t.st \in {"done", "failed", "cancelled"}

\* C19 (SpecCache): a fetch that failed (non-zero exit, timeout, malformed
\* JSON) returned the empty list, and the cache is empty while it is the
\* latest fetch; a fetch is started only by set_active_rg, one per call; a
\* fetch that has ended is never run again.
C19_RefreshOneShot ==
    /\ [](\A i \in 1..Len(tasks) :
              (tasks[i].st = "done" /\ tasks[i].outcome = "failed") =>
                  /\ tasks[i].fetched = << >>
                  /\ i = _fetch_task => _cached_resources = << >>)
    /\ [][Len(tasks') # Len(tasks) =>
             /\ Len(tasks') = Len(tasks) + 1
             /\ _fetch_task' = Len(tasks')
             /\ _active_rg' = tasks'[Len(tasks')].rg
             /\ tasks'[Len(tasks')].st = "scheduled"]_vars
    /\ [][\A i \in 1..Len(tasks) : C19_Finished(tasks[i]) => tasks'[i] = tasks[i]]_vars

\* C19 witness: the fetch of the first set_active_rg failed on its timeout,
\* and the fetch the second call started has loaded the resources.
C19_Witness ==
    /\ Len(tasks) = 2
    /\ tasks[1].st = "done" /\ tasks[1].outcome = "failed" /\ tasks[1].proc = "running"
    /\ tasks[2].st = "done" /\ tasks[2].outcome = "ok"
    /\ _cached_resources = FullList(_active_rg)

C20_Directive(rg) ==
    "[Active Resource Group: " \o rg \o "]\n"
    \o "When I say 'this resource group' I mean '" \o rg \o "'.\n\n"

\* C20 (SpecSession): the prompt a turn submits is the result of
\* resolve_mentions on the line the user typed, with the active-scope
\* directive in front of it when a scope is set at that moment, and that
\* result exactly when no scope is set.
C20_SubmittedPrompt ==
    [][(pc = "resolve" /\ pc' = "send") =>
          /\ m_pc = "done"
          /\ m_input = user_input
          /\ resolved_text' = IF get_active_rg = None THEN m_result
                              ELSE C20_Directive(get_active_rg) \o m_result]_vars

\* C20 witness: with the scope rg-b set, a prompt with a resolved mention
\* was submitted behind the directive of rg-b.
C20_Witness ==
    /\ pc = "send"
    /\ get_active_rg = "rg-b"
    /\ StartsAt(resolved_text, 1, "[Active Resource Group: rg-b]\nWhen I say")
    /\ StrIn("\n\nUser question: ", resolved_text)

RECURSIVE C21_Text(_)
\* the buffered deltas concatenated in arrival order
C21_Text(buffer) ==
    IF buffer = << >> THEN "" ELSE Head(buffer) \o C21_Text(Tail(buffer))

\* C21 (SpecRepl): when send_and_wait raises a timeout the REPL prints the
\* timeout warning, renders the deltas buffered so far (nothing when there
\* are none) and goes back to the prompt without running cleanup; the client
\* stays started and the session open in every state that follows, as long
\* as the agent may still answer the timed-out prompt.
C21_TimeoutNonFatal ==
    /\ [][(pc = "send" /\ console'.report = TimeoutWarning) =>
             /\ pc' = "prompt"
             /\ console'.markdown = IF response_buffer = << >> THEN None
                                    ELSE C21_Text(response_buffer)
             /\ response_buffer' = response_buffer
             /\ cleanup_runs' = 0
             /\ client' = "started"
             /\ session' = "open"]_vars
    /\ [](late_work => (client = "started" /\ session = "open" /\ cleanup_runs = 0))

\* C21 witness: after a turn timed out, the following turn was submitted and
\* a delta of its own response has arrived through the same subscription.
C21_Witness ==
    /\ late_work
    /\ pc = "send"
    /\ \E i \in 1..Len(delta_turns) :
          delta_turns[i] = "this" /\ response_buffer[i] = "Hi"

\* C22 (SpecRepl): the markdown rendered at the end of a turn is the
\* concatenation, in arrival order, of deltas that all answer the prompt of
\* that turn; no delta that answers the prompt of an earlier turn is in it.
C22_RendersOwnDeltasOnly ==
    console.markdown # None =>
        /\ console.markdown = C21_Text(response_buffer)
        /\ \A i \in 1..Len(delta_turns) : delta_turns[i] = "this"

\* run_repl has left its loop
C23_Left == pc \in {"exited", "interrupted", "crashed"}

\* C23 (SpecRepl): while the loop runs cleanup has not run and the client is
\* started; once the loop is left, by an exit command, by end of input or
\* Ctrl-C at the prompt, by Ctrl-C during a turn or by an exception, cleanup
\* has run exactly once and client.stop was called whether session.destroy
\* returned or raised; when create_agent failed the error was reported, no
\* line was read and cleanup did not run; nothing runs after run_repl is left.
C23_CleanupExactlyOnce ==
    /\ [](pc \in {"prompt", "command", "resolve", "send"} =>
             (cleanup_runs = 0 /\ client = "started" /\ session = "open"))
    /\ [](C23_Left =>
             /\ cleanup_runs = 1
             /\ client = "stopped"
             /\ session \in {"destroyed", "destroy_failed"})
    /\ [](pc = "init_failed" =>
             /\ console.report = InitError
             /\ user_input = ""
             /\ cleanup_runs = 0)
    /\ [][~C23_Left /\ pc # "init_failed"]_vars

\* C23 witness: Ctrl-C during a turn left the loop, session.destroy raised
\* and client.stop was called all the same.
C23_Witness ==
    /\ pc = "interrupted"
    /\ cleanup_runs = 1
    /\ session = "destroy_failed"
    /\ client = "stopped"

\* the diagnostic of the timeout handler of resolve_mentions
C24_TimeoutDiagnostic(token) ==
    "[Could not resolve " \o token \o ": timed out after " \o ToString(AZ_TIMEOUT) \o "s]"

\* C24 (SpecMentions): the context block of every mention whose backend
\* lookup exceeded the time bound is the timeout diagnostic
\* `[Could not resolve <token>: timed out after 10s]`.
C24_TimeoutDiagnosticShown ==
    m_pc \in {"loop", "done"} =>
        \A i \in 1..Len(m_log) :
            m_log[i].outcome = "timeout" =>
                contexts[i] = C24_TimeoutDiagnostic(m_log[i].token)

====
